---- MODULE Spec2Model ----
(***************************************************************************)
(* ICS-Watchtower: record accessors, ICS filter, severity classifier and   *)
(* the fetch / cross-reference / aggregation pipeline of src/src/*.py.     *)
(*                                                                         *)
(* JSON objects are TLA+ records whose DOMAIN is the set of keys present,  *)
(* JSON arrays are sequences, JSON strings are strings.  CVSS scores are   *)
(* integers in hundredths (9.8 is 980, 0.05 is 5), so that every threshold *)
(* comparison of the source is exact.  A key whose JSON value is null is   *)
(* present in the record and named in the record's field null_keys; what   *)
(* the record holds under such a key is immaterial.                        *)
(***************************************************************************)
EXTENDS Integers, Sequences, FiniteSets, TLC

VARIABLES
    \* filter_ics_vulnerabilities called on its own (filters.py)
    cve_list, keywords, min_severity, filtered, filter_pc,
    \* get_severity_rating called on its own
    rating_arg, rating_ret, rating_pc, rating_prev,
    \* get_cvss_score called on its own
    score_obj, score_ret, score_pc,
    \* the upstream feeds and the clock (the environment of a query)
    today, kev_feed, nvd_world,
    \* one query: /api/data, /api/stats or the CLI main
    pc, endpoint, days,
    \* NVDClient.fetch_recent_cves: the page loop and the response in hand
    start_index, results, response,
    \* how each fetch of the query ended
    outcome,
    \* the locals of fetch_and_filter_data / main
    nvd_cves, cisa_kevs, all_cisa_kevs, ics_filtered, cisa_kev_cve_ids,
    \* what the query returns: the formatted list, the statistics and the
    \* sorted views /api/stats adds to them, the CLI report
    formatted, stats, stats_view, report,
    \* the calls of aggregate_statistics made so far: arguments and result
    stats_calls

filterVars == <<cve_list, keywords, min_severity, filtered, filter_pc>>
ratingVars == <<rating_arg, rating_ret, rating_pc, rating_prev>>
scoreVars == <<score_obj, score_ret, score_pc>>
worldVars == <<today, kev_feed, nvd_world>>
nvdVars == <<start_index, results, response>>
localVars == <<nvd_cves, cisa_kevs, all_cisa_kevs, ics_filtered, cisa_kev_cve_ids>>
outVars == <<formatted, stats, stats_view, report>>
callVars == <<stats_calls>>
queryVars == <<worldVars, pc, endpoint, days, nvdVars, outcome, localVars, outVars, callVars>>
pureVars == <<filterVars, ratingVars, scoreVars, callVars>>
vars == <<filterVars, ratingVars, scoreVars, queryVars>>

(***************************************************************************)
(* Python built-ins used by the source.                                    *)
(***************************************************************************)
EmptyObj == [k \in {} |-> 0]

\* dict.get(key, default)
Get(obj, key, default) == IF key \in DOMAIN obj THEN obj[key] ELSE default

\* obj[key] is None
IsNone(obj, key) ==
    /\ key \in DOMAIN obj
    /\ "null_keys" \in DOMAIN obj
    /\ key \in obj.null_keys

UpperAlpha == "ABCDEFGHIJKLMNOPQRSTUVWXYZ"
LowerAlpha == "abcdefghijklmnopqrstuvwxyz"

\* the lower-case letter of every upper-case one
LowerMap ==
    [c \in {SubSeq(UpperAlpha, i, i) : i \in 1..Len(UpperAlpha)} |->
        LET i == CHOOSE j \in 1..Len(UpperAlpha) : SubSeq(UpperAlpha, j, j) = c
        IN SubSeq(LowerAlpha, i, i)]

LowerChar(c) == IF c \in DOMAIN LowerMap THEN LowerMap[c] ELSE c

\* str.lower()
lower(s) ==
    LET f[i \in 0..Len(s)] ==
            IF i = 0 THEN "" ELSE f[i - 1] \o LowerChar(SubSeq(s, i, i))
    IN f[Len(s)]

\* `k in t` for strings
Contains(k, t) ==
    \E i \in 0..(Len(t) - Len(k)) : SubSeq(t, i + 1, i + Len(k)) = k

\* str.split(sep) for a one-character separator
Split(s, sep) ==
    LET cuts == {i \in 1..Len(s) : SubSeq(s, i, i) = sep}
        f[i \in 0..Len(s)] ==
            \* <<parts closed so far, start of the open part>>
            IF i = 0 THEN <<<<>>, 1>>
            ELSE IF i \in cuts
                 THEN <<Append(f[i - 1][1], SubSeq(s, f[i - 1][2], i - 1)), i + 1>>
                 ELSE f[i - 1]
        last == f[Len(s)]
    IN Append(last[1], SubSeq(s, last[2], Len(s)))

\* sep.join(parts)
Join(parts, sep) ==
    LET f[i \in 0..Len(parts)] ==
            IF i = 0 THEN ""
            ELSE IF i = 1 THEN parts[1]
            ELSE f[i - 1] \o sep \o parts[i]
    IN f[Len(parts)]

\* list.append / list.extend over nested loops: the lists of seqs, joined in order
Concat(seqs) ==
    LET f[i \in 0..Len(seqs)] ==
            IF i = 0 THEN <<>> ELSE f[i - 1] \o seqs[i]
    IN f[Len(seqs)]

Min(S) == CHOOSE x \in S : \A y \in S : x <= y

(***************************************************************************)
(* config.py                                                               *)
(***************************************************************************)
ICS_KEYWORDS ==
    << "SCADA", "PLC", "Modbus", "Siemens", "Schneider Electric", "Omron",
       "Rockwell", "ABB", "Mitsubishi Electric" >>

(***************************************************************************)
(* filters.py: record accessors                                            *)
(***************************************************************************)
is_nvd(cve_obj) == "cve" \in DOMAIN cve_obj

\* iterating None is a TypeError, which the except clause (KeyError,
\* IndexError, AttributeError) of filters.py 31 does not catch
extract_nvd_description_raises(cve_obj) ==
    /\ ~IsNone(cve_obj, "cve")
    /\ IsNone(Get(cve_obj, "cve", EmptyObj), "descriptions")

\* the value returned when the call does not raise; None.get is an
\* AttributeError, caught
extract_nvd_description(cve_obj) ==
    IF IsNone(cve_obj, "cve") THEN ""
    ELSE
    LET cve == Get(cve_obj, "cve", EmptyObj)
        descriptions == Get(cve, "descriptions", <<>>)
        en == {i \in 1..Len(descriptions) : Get(descriptions[i], "lang", "") = "en"}
    IN IF en # {} THEN Get(descriptions[Min(en)], "value", "")
       ELSE IF Len(descriptions) > 0 THEN Get(descriptions[1], "value", "")
       ELSE ""

\* vendor (parts[3]) and product (parts[4]) of one CPE criteria string
cpe_tokens(match) ==
    LET criteria == Get(match, "criteria", "")
        parts == Split(criteria, ":")
        keep(tok) == IF tok # "" /\ tok # "*" THEN <<tok>> ELSE <<>>
    IN IF Len(parts) >= 5 THEN keep(parts[4]) \o keep(parts[5]) ELSE <<>>

cpe_match_tokens(node) ==
    LET cpe_match == Get(node, "cpeMatch", <<>>)
    IN Concat([i \in 1..Len(cpe_match) |-> cpe_tokens(cpe_match[i])])

node_tokens(node) ==
    LET children == Get(node, "children", <<>>)
    IN cpe_match_tokens(node)
          \o Concat([i \in 1..Len(children) |-> cpe_match_tokens(children[i])])

config_tokens(config) ==
    LET nodes == Get(config, "nodes", <<>>)
    IN Concat([i \in 1..Len(nodes) |-> node_tokens(nodes[i])])

\* iterating None is a TypeError, not caught at filters.py 84
extract_nvd_vendors_products_raises(cve_obj) ==
    /\ ~IsNone(cve_obj, "cve")
    /\ IsNone(Get(cve_obj, "cve", EmptyObj), "configurations")

extract_nvd_vendors_products(cve_obj) ==
    IF IsNone(cve_obj, "cve") THEN <<>>
    ELSE
    LET cve == Get(cve_obj, "cve", EmptyObj)
        configurations == Get(cve, "configurations", <<>>)
    IN Concat([i \in 1..Len(configurations) |-> config_tokens(configurations[i])])

\* mutant: the first non-zero base score among all entries of the scheme
any_base_score(metrics, scheme) ==
    LET entries == Get(metrics, scheme, <<>>)
        base(i) == Get(Get(entries[i], "cvssData", EmptyObj), "baseScore", 0)
        nz == {i \in 1..Len(entries) : base(i) # 0}
    IN IF nz # {} THEN base(Min(nz)) ELSE 0

\* the base score of the first entry listed under a scheme, 0 when there is none
first_base_score(metrics, scheme) ==
    LET entries == Get(metrics, scheme, <<>>)
    IN IF Len(entries) > 0
       THEN Get(Get(entries[1], "cvssData", EmptyObj), "baseScore", 0)
       ELSE 0

get_nvd_cvss_score(cve_obj) ==
    IF IsNone(cve_obj, "cve") \/ IsNone(Get(cve_obj, "cve", EmptyObj), "metrics") THEN 0
    ELSE
    LET cve == Get(cve_obj, "cve", EmptyObj)
        metrics == Get(cve, "metrics", EmptyObj)
    IN IF first_base_score(metrics, "cvssMetricV31") # 0
       THEN first_base_score(metrics, "cvssMetricV31")
       ELSE IF first_base_score(metrics, "cvssMetricV30") # 0
       THEN first_base_score(metrics, "cvssMetricV30")
       ELSE IF first_base_score(metrics, "cvssMetricV2") # 0
       THEN first_base_score(metrics, "cvssMetricV2")
       ELSE 0

get_cve_id(cve_obj) ==
    IF "cve" \in DOMAIN cve_obj
    THEN (IF IsNone(cve_obj, "cve") THEN ""
          ELSE Get(Get(cve_obj, "cve", EmptyObj), "id", ""))
    ELSE Get(cve_obj, "cveID", "")

get_cvss_score(cve_obj) ==
    IF "cve" \notin DOMAIN cve_obj THEN 0 ELSE get_nvd_cvss_score(cve_obj)

\* mutant: the CRITICAL threshold excludes its lower bound
get_severity_rating_exclusive(cvss_score) ==
    IF cvss_score = 0 THEN "Unknown"
    ELSE IF cvss_score > 900 THEN "CRITICAL"
    ELSE IF cvss_score >= 700 THEN "HIGH"
    ELSE IF cvss_score >= 400 THEN "MEDIUM"
    ELSE IF cvss_score >= 10 THEN "LOW"
    ELSE "Unknown"

get_severity_rating(cvss_score) ==
    IF cvss_score = 0 THEN "Unknown"
    ELSE IF cvss_score >= 900 THEN "CRITICAL"
    ELSE IF cvss_score >= 700 THEN "HIGH"
    ELSE IF cvss_score >= 400 THEN "MEDIUM"
    ELSE IF cvss_score >= 10 THEN "LOW"
    ELSE "Unknown"

get_nvd_published_date(cve_obj) ==
    IF IsNone(cve_obj, "cve") \/ IsNone(Get(cve_obj, "cve", EmptyObj), "published") THEN ""
    ELSE
    LET cve == Get(cve_obj, "cve", EmptyObj)
        published == Get(cve, "published", "")
    IN IF published # "" THEN Split(published, "T")[1] ELSE ""

get_nvd_description(cve_obj) == extract_nvd_description(cve_obj)

get_cisa_kev_details(kev_obj) ==
    [ cve_id               |-> Get(kev_obj, "cveID", ""),
      vendor_project       |-> Get(kev_obj, "vendorProject", ""),
      product              |-> Get(kev_obj, "product", ""),
      vulnerability_name   |-> Get(kev_obj, "vulnerabilityName", ""),
      date_added           |-> Get(kev_obj, "dateAdded", ""),
      due_date             |-> Get(kev_obj, "dueDate", ""),
      known_ransomware_use |-> Get(kev_obj, "knownRansomwareCampaignUse", "Unknown"),
      notes                |-> Get(kev_obj, "notes", "") ]

(***************************************************************************)
(* filters.py: the ICS filter                                              *)
(***************************************************************************)
matches_keywords(text, kws) ==
    LET text_lower == lower(text)
    IN \E i \in 1..Len(kws) : Contains(lower(kws[i]), text_lower)

\* the text the keyword test searches (filters.py 303-317)
searchable_text(cve_obj) ==
    IF is_nvd(cve_obj)
    THEN extract_nvd_description(cve_obj) \o " "
            \o Join(extract_nvd_vendors_products(cve_obj), " ")
    ELSE LET description ==
                 IF Get(cve_obj, "vulnerabilityName", "") # ""
                 THEN Get(cve_obj, "vulnerabilityName", "")
                 ELSE Get(cve_obj, "description", "")
             vendor == Get(cve_obj, "vendorProject", "")
             product == Get(cve_obj, "product", "")
         IN description \o " " \o vendor \o " " \o product

\* the score the severity test reads (filters.py 307, 321)
filter_cvss_score(cve_obj) ==
    IF is_nvd(cve_obj) THEN get_nvd_cvss_score(cve_obj) ELSE 1000

\* mutant: the threshold also applied to exploited-catalog entries
severity_rejects_any_source(cve_obj, min_sev) ==
    filter_cvss_score(cve_obj) < min_sev

\* mutant: a record without any score is let through
severity_rejects_scored_only(cve_obj, min_sev) ==
    is_nvd(cve_obj) /\ filter_cvss_score(cve_obj) # 0 /\ filter_cvss_score(cve_obj) < min_sev

\* the severity test of the loop body (filters.py 327-329): TRUE = rejected
severity_rejects(cve_obj, min_sev) ==
    is_nvd(cve_obj) /\ filter_cvss_score(cve_obj) < min_sev

\* mutant: a critical score stands in for the keyword test
passes_ics_filter_or_critical(cve_obj, kws, min_sev) ==
    /\ matches_keywords(searchable_text(cve_obj), kws) \/ filter_cvss_score(cve_obj) >= 900
    /\ ~severity_rejects(cve_obj, min_sev)

\* one iteration of the loop: whether cve_obj is appended (filters.py 298-332)
passes_ics_filter(cve_obj, kws, min_sev) ==
    /\ matches_keywords(searchable_text(cve_obj), kws)
    /\ ~severity_rejects(cve_obj, min_sev)

\* one iteration of the loop raises (filters.py 305-306)
passes_ics_filter_raises(cve_obj) ==
    /\ is_nvd(cve_obj)
    /\ extract_nvd_description_raises(cve_obj)
          \/ extract_nvd_vendors_products_raises(cve_obj)

\* the exception leaves the loop and the function
filter_ics_vulnerabilities_raises(list) ==
    \E i \in 1..Len(list) : passes_ics_filter_raises(list[i])

\* mutant: kept records are inserted at the front
filter_ics_vulnerabilities_prepend(list, kws, min_sev) ==
    LET f[i \in 0..Len(list)] ==
            IF i = 0 THEN <<>>
            ELSE IF passes_ics_filter(list[i], kws, min_sev)
                 THEN <<list[i]>> \o f[i - 1]
                 ELSE f[i - 1]
    IN f[Len(list)]

filter_ics_vulnerabilities(list, kws, min_sev) ==
    LET f[i \in 0..Len(list)] ==
            IF i = 0 THEN <<>>
            ELSE IF passes_ics_filter(list[i], kws, min_sev)
                 THEN Append(f[i - 1], list[i])
                 ELSE f[i - 1]
    IN f[Len(list)]

(***************************************************************************)
(* Dates: datetime.strptime(s, "%Y-%m-%d"), datetime.fromisoformat and     *)
(* date.toordinal, as far as cisa_client.py uses them.                     *)
(***************************************************************************)
Digits == "0123456789"

IsDigit(c) == \E i \in 1..Len(Digits) : SubSeq(Digits, i, i) = c

DigitValue(c) == (CHOOSE i \in 1..Len(Digits) : SubSeq(Digits, i, i) = c) - 1

AllDigits(s) == \A i \in 1..Len(s) : IsDigit(SubSeq(s, i, i))

ToInt(s) ==
    LET f[i \in 0..Len(s)] ==
            IF i = 0 THEN 0 ELSE 10 * f[i - 1] + DigitValue(SubSeq(s, i, i))
    IN f[Len(s)]

IsLeap(y) == (y % 4 = 0 /\ y % 100 # 0) \/ y % 400 = 0

DaysInMonth(y, m) ==
    IF m = 2 THEN (IF IsLeap(y) THEN 29 ELSE 28)
    ELSE IF m \in {4, 6, 9, 11} THEN 30 ELSE 31

\* date(y, m, d).toordinal()
ToOrdinal(y, m, d) ==
    LET before_year == (y - 1) * 365 + (y - 1) \div 4 - (y - 1) \div 100 + (y - 1) \div 400
        before_month[k \in 1..12] ==
            IF k = 1 THEN 0 ELSE before_month[k - 1] + DaysInMonth(y, k - 1)
    IN before_year + before_month[m] + d

NoDate == 0 - 1

\* the ordinal of year-month-day given as digit strings, NoDate if out of range
CivilOrdinal(ys, ms, ds) ==
    IF /\ AllDigits(ys) /\ AllDigits(ms) /\ AllDigits(ds)
       /\ ToInt(ys) >= 1
       /\ ToInt(ms) \in 1..12
       /\ ToInt(ds) >= 1 /\ ToInt(ds) <= DaysInMonth(ToInt(ys), ToInt(ms))
    THEN ToOrdinal(ToInt(ys), ToInt(ms), ToInt(ds))
    ELSE NoDate

\* strptime(s, "%Y-%m-%d").date(): four-digit year, one- or two-digit month
\* and day, nothing after them; NoDate stands for ValueError
strptime_ymd(s) ==
    LET parts == Split(s, "-")
    IN IF /\ Len(parts) = 3
          /\ Len(parts[1]) = 4
          /\ Len(parts[2]) \in 1..2
          /\ Len(parts[3]) \in 1..2
       THEN CivilOrdinal(parts[1], parts[2], parts[3])
       ELSE NoDate

\* HH:MM:SS
IsClock(s) ==
    /\ Len(s) = 8
    /\ SubSeq(s, 3, 3) = ":" /\ SubSeq(s, 6, 6) = ":"
    /\ AllDigits(SubSeq(s, 1, 2)) /\ AllDigits(SubSeq(s, 4, 5)) /\ AllDigits(SubSeq(s, 7, 8))
    /\ ToInt(SubSeq(s, 1, 2)) <= 23
    /\ ToInt(SubSeq(s, 4, 5)) <= 59
    /\ ToInt(SubSeq(s, 7, 8)) <= 59

\* the time part after the separator: HH:MM:SS, then an optional UTC offset
\* (a trailing Z has been replaced by +00:00)
IsIsoTime(s) ==
    \/ IsClock(s)
    \/ /\ Len(s) = 14
       /\ IsClock(SubSeq(s, 1, 8))
       /\ SubSeq(s, 9, 9) = "+"
       /\ AllDigits(SubSeq(s, 10, 11)) /\ SubSeq(s, 12, 12) = ":"
       /\ AllDigits(SubSeq(s, 13, 14))
       /\ ToInt(SubSeq(s, 10, 11)) <= 23 /\ ToInt(SubSeq(s, 13, 14)) <= 59

\* str.replace('Z', '+00:00')
ReplaceZ(s) ==
    LET f[i \in 0..Len(s)] ==
            IF i = 0 THEN ""
            ELSE f[i - 1] \o (IF SubSeq(s, i, i) = "Z" THEN "+00:00" ELSE SubSeq(s, i, i))
    IN f[Len(s)]

\* datetime.fromisoformat(s.replace('Z', '+00:00')).date(): YYYY-MM-DD, alone
\* or followed by one separator character and a time
fromisoformat_date(s) ==
    LET t == ReplaceZ(s)
    IN IF /\ Len(t) >= 10
          /\ SubSeq(t, 5, 5) = "-" /\ SubSeq(t, 8, 8) = "-"
          /\ (Len(t) = 10 \/ (Len(t) >= 12 /\ IsIsoTime(SubSeq(t, 12, Len(t)))))
       THEN CivilOrdinal(SubSeq(t, 1, 4), SubSeq(t, 6, 7), SubSeq(t, 9, 10))
       ELSE NoDate

\* mutant: no second attempt with the ISO format
parse_date_added_strict(date_added_str) == strptime_ymd(date_added_str)

\* the date of a dateAdded string (cisa_client.py 77-89), NoDate if neither
\* format parses it
parse_date_added(date_added_str) ==
    IF strptime_ymd(date_added_str) # NoDate
    THEN strptime_ymd(date_added_str)
    ELSE fromisoformat_date(date_added_str)

(***************************************************************************)
(* cisa_client.py                                                          *)
(***************************************************************************)
\* the loop of get_recent_kevs over the fetched catalog (cisa_client.py 66-95)
recent_kevs_of(all_kevs, utc_today, n_days) ==
    LET cutoff_date == strptime_ymd(utc_today) - n_days
        keep(entry) ==
            LET date_added_str == Get(entry, "dateAdded", "")
            IN /\ date_added_str # ""
               /\ parse_date_added(date_added_str) # NoDate
               /\ parse_date_added(date_added_str) >= cutoff_date
        f[i \in 0..Len(all_kevs)] ==
            IF i = 0 THEN <<>>
            ELSE IF keep(all_kevs[i]) THEN Append(f[i - 1], all_kevs[i]) ELSE f[i - 1]
    IN f[Len(all_kevs)]

(***************************************************************************)
(* Records the upstream feeds can serve.                                   *)
(***************************************************************************)
Entry(base_score) == [cvssData |-> [baseScore |-> base_score]]

\* scenario 1: keyword in the description, score 9.8
NvdSiemens ==
    [cve |-> [ id |-> "CVE-2024-0001",
               descriptions |-> << [lang |-> "en",
                                    value |-> "Siemens SCADA controller buffer overflow"] >>,
               metrics |-> [cvssMetricV31 |-> << Entry(980) >>],
               published |-> "2024-06-12T10:15:00.000" ]]

\* scenario 2: no keyword, score 9.9
NvdSql ==
    [cve |-> [ id |-> "CVE-2024-0002",
               descriptions |-> << [lang |-> "en",
                                    value |-> "generic web app SQL injection"] >>,
               metrics |-> [cvssMetricV31 |-> << Entry(990) >>],
               published |-> "2024-06-13T08:00:00.000" ]]

\* keyword only in a CPE vendor token, score exactly 7.0, Spanish text first
NvdCpeOnly ==
    [cve |-> [ id |-> "CVE-2024-0003",
               descriptions |-> << [lang |-> "es", value |-> "desbordamiento de pila"],
                                   [lang |-> "en", value |-> "stack overflow in update handler"] >>,
               configurations |-> << [nodes |-> <<
                   [cpeMatch |-> << [criteria |-> "cpe:2.3:o:rockwellautomation:micrologix:*:*"] >>] >>] >>,
               metrics |-> [cvssMetricV30 |-> << Entry(700) >>],
               published |-> "2024-06-10T00:00:00.000" ]]

\* keyword in lower case, score 6.9 under the oldest scheme only
NvdLow ==
    [cve |-> [ id |-> "CVE-2024-0004",
               descriptions |-> << [lang |-> "en", value |-> "modbus gateway information leak"] >>,
               metrics |-> [cvssMetricV2 |-> << Entry(690) >>],
               published |-> "2024-06-12T23:59:59.000" ]]

\* keyword, no metrics at all, no published date
NvdNoScore ==
    [cve |-> [ id |-> "CVE-2024-0005",
               descriptions |-> << [lang |-> "en", value |-> "Omron PLC denial of service"] >> ]]

\* keyword; the newest scheme lists a zero first entry and a non-zero second
NvdMulti ==
    [cve |-> [ id |-> "CVE-2024-0006",
               descriptions |-> << [lang |-> "en", value |-> "ABB relay command injection"] >>,
               metrics |-> [cvssMetricV31 |-> << Entry(0), Entry(910) >>,
                            cvssMetricV2 |-> << Entry(500) >>],
               published |-> "2024-06-14T12:00:00.000" ]]

\* scenario 3: the exploited-catalog entry of a Rockwell PLC, same ID as NvdSiemens
KevRockwell ==
    [ cveID |-> "CVE-2024-0001", vendorProject |-> "Rockwell", product |-> "PLC firmware",
      vulnerabilityName |-> "Authentication bypass", dateAdded |-> "2021-11-03",
      dueDate |-> "2021-11-17", knownRansomwareCampaignUse |-> "Known" ]

\* an exploited-catalog entry that matches no ICS keyword
KevWindows ==
    [ cveID |-> "CVE-2023-1111", vendorProject |-> "Microsoft", product |-> "Windows",
      vulnerabilityName |-> "Privilege escalation", dateAdded |-> "2024-06-13" ]

\* no vulnerabilityName: the description is the fallback; no product
KevScada ==
    [ cveID |-> "CVE-2024-0006", vendorProject |-> "Acme",
      description |-> "scada historian remote code execution", dateAdded |-> "2024-06-14" ]

CatalogEntries == {NvdSiemens, NvdSql, NvdCpeOnly, NvdLow, NvdNoScore, NvdMulti}
ExploitedEntries == {KevRockwell, KevWindows, KevScada}

\* all sequences over S of length at most n
SeqsUpTo(S, n) == UNION {[1..k -> S] : k \in 0..n}

\* dateAdded in the alternate ISO form
KevIsoDate ==
    [ cveID |-> "CVE-2024-0003", vendorProject |-> "Siemens", product |-> "SIMATIC",
      vulnerabilityName |-> "Hard-coded credentials", dateAdded |-> "2024-06-14T08:00:00Z" ]

\* dateAdded in no format the client parses
KevBadDate ==
    [ cveID |-> "CVE-2024-0007", vendorProject |-> "Schneider Electric", product |-> "Modicon",
      vulnerabilityName |-> "Improper input validation", dateAdded |-> "June 14, 2024" ]

\* a CatalogEntry without an ID
NvdNoId ==
    [ cve |-> [ descriptions |-> << [lang |-> "en", value |-> "Mitsubishi Electric PLC stack overflow"] >>,
                metrics |-> [cvssMetricV31 |-> << Entry(810) >>] ] ]

\* an exploited-catalog entry without dateAdded
KevNoDate ==
    [ cveID |-> "CVE-2024-0008", vendorProject |-> "Omron", product |-> "CJ2M",
      vulnerabilityName |-> "Cleartext transmission" ]

\* an exploited-catalog entry without cveID and without vendorProject
KevNoId ==
    [ product |-> "Modbus bridge", vulnerabilityName |-> "Missing authentication",
      dateAdded |-> "2024-06-14" ]

(***************************************************************************)
(* web_app.py and main.py: cross-reference, statistics, formatting.        *)
(* A Python dict (defaultdict(int)) is the sequence of its <<key, value>>  *)
(* pairs in insertion order.                                               *)
(***************************************************************************)
None == "None"

DictHas(d, k) == \E i \in 1..Len(d) : d[i][1] = k

DictGet(d, k, default) ==
    IF DictHas(d, k) THEN d[CHOOSE i \in 1..Len(d) : d[i][1] = k][2] ELSE default

\* d[k] += 1 on a defaultdict(int)
DictInc(d, k) ==
    IF DictHas(d, k)
    THEN [i \in 1..Len(d) |-> IF d[i][1] = k THEN <<k, d[i][2] + 1>> ELSE d[i]]
    ELSE Append(d, <<k, 1>>)

\* d[k] += 1 for every k of keys, in order
DictIncAll(d, keys) ==
    LET f[i \in 0..Len(keys)] ==
            IF i = 0 THEN d ELSE DictInc(f[i - 1], keys[i])
    IN f[Len(keys)]

\* {get_cve_id(kev) for kev in kevs if get_cve_id(kev)} (web_app.py 89)
full_kev_id_set(kevs) ==
    {get_cve_id(kevs[i]) : i \in 1..Len(kevs)} \ {""}

\* {get_cve_id(kev) for kev in cisa_kevs} (web_app.py 113, main.py 103)
kev_id_set(kevs) ==
    {get_cve_id(kevs[i]) : i \in 1..Len(kevs)}

\* mutant: only records of the exploited catalog itself are forced to CRITICAL
stats_severity_rating_own_only(cve, ids) ==
    IF "cve" \notin DOMAIN cve THEN "CRITICAL"
    ELSE IF get_cvss_score(cve) > 0 THEN get_severity_rating(get_cvss_score(cve))
    ELSE "Unknown"

\* the rating a record is counted under (web_app.py 117-128)
stats_severity_rating(cve, ids) ==
    LET cve_id == get_cve_id(cve)
        cvss_score == get_cvss_score(cve)
        is_cisa_kev == "cve" \notin DOMAIN cve
        is_in_kev == cve_id \in ids
    IN IF is_cisa_kev \/ is_in_kev THEN "CRITICAL"
       ELSE IF cvss_score > 0 THEN get_severity_rating(cvss_score)
       ELSE "Unknown"

\* mutant: every known-exploited record is counted as critical
stats_is_critical_any_exploited(cve, ids) ==
    get_cvss_score(cve) >= 900 \/ "cve" \notin DOMAIN cve \/ get_cve_id(cve) \in ids

\* mutant: the count starts at the HIGH threshold
stats_is_critical_from_high(cve, ids) ==
    LET cvss_score == get_cvss_score(cve)
    IN cvss_score >= 700
          \/ (cvss_score = 0 /\ ("cve" \notin DOMAIN cve \/ get_cve_id(cve) \in ids))

\* whether critical_count is incremented (web_app.py 133)
stats_is_critical(cve, ids) ==
    LET cvss_score == get_cvss_score(cve)
        is_cisa_kev == "cve" \notin DOMAIN cve
        is_in_kev == get_cve_id(cve) \in ids
    IN cvss_score >= 900 \/ (cvss_score = 0 /\ (is_cisa_kev \/ is_in_kev))

\* the timeline keys a record increments: its date, if it has one (137-146)
stats_timeline_keys(cve) ==
    LET date == IF "cve" \in DOMAIN cve
                THEN get_nvd_published_date(cve)
                ELSE get_cisa_kev_details(cve).date_added
    IN IF date # "" THEN <<date>> ELSE <<>>

\* mutant: the keywords are searched in the text the filter searches
stats_vendor_keys_searchable(cve) ==
    IF "cve" \in DOMAIN cve
    THEN LET text == lower(searchable_text(cve))
         IN SelectSeq(ICS_KEYWORDS, LAMBDA keyword : Contains(lower(keyword), text))
    ELSE LET vendor == get_cisa_kev_details(cve).vendor_project
             product == get_cisa_kev_details(cve).product
         IN (IF vendor # "" THEN <<vendor>> ELSE <<>>)
               \o (IF product # "" THEN <<vendor \o " - " \o product>> ELSE <<>>)

\* the vendor/product counters a record increments, in order (149-163)
stats_vendor_keys(cve) ==
    IF "cve" \in DOMAIN cve
    THEN LET description == lower(get_nvd_description(cve))
         IN SelectSeq(ICS_KEYWORDS, LAMBDA keyword : Contains(lower(keyword), description))
    ELSE LET vendor == get_cisa_kev_details(cve).vendor_project
             product == get_cisa_kev_details(cve).product
         IN (IF vendor # "" THEN <<vendor>> ELSE <<>>)
               \o (IF product # "" THEN <<vendor \o " - " \o product>> ELSE <<>>)

\* whether the record is counted in cisa_kev_count, else nvd_only_count (166-169)
stats_is_kev(cve, ids) ==
    get_cve_id(cve) \in ids \/ "cve" \notin DOMAIN cve

\* mutant: every record of the general feed is counted as NVD-only
stats_step_nvd_always_only(st, cve, ids) ==
    [ st EXCEPT
        !.severity_distribution = DictInc(@, stats_severity_rating(cve, ids)),
        !.critical_count = IF stats_is_critical(cve, ids) THEN @ + 1 ELSE @,
        !.timeline_data = DictIncAll(@, stats_timeline_keys(cve)),
        !.vendor_product_count = DictIncAll(@, stats_vendor_keys(cve)),
        !.cisa_kev_count = IF stats_is_kev(cve, ids) THEN @ + 1 ELSE @,
        !.nvd_only_count = IF "cve" \in DOMAIN cve THEN @ + 1 ELSE @ ]

\* one iteration of the loop of aggregate_statistics (web_app.py 116-169)
stats_step(st, cve, ids) ==
    [ st EXCEPT
        !.severity_distribution = DictInc(@, stats_severity_rating(cve, ids)),
        !.critical_count = IF stats_is_critical(cve, ids) THEN @ + 1 ELSE @,
        !.timeline_data = DictIncAll(@, stats_timeline_keys(cve)),
        !.vendor_product_count = DictIncAll(@, stats_vendor_keys(cve)),
        !.cisa_kev_count = IF stats_is_kev(cve, ids) THEN @ + 1 ELSE @,
        !.nvd_only_count = IF stats_is_kev(cve, ids) THEN @ ELSE @ + 1 ]

\* mutant: the counters of the previous call are carried into the next
aggregate_statistics_accumulating(filtered_list, nvd_list, kev_list) ==
    LET initial ==
            IF stats # EmptyObj
            THEN [ stats EXCEPT !.total_ics = Len(filtered_list),
                                !.total_nvd = Len(nvd_list),
                                !.total_cisa = Len(kev_list) ]
            ELSE [ total_ics |-> Len(filtered_list),
                   total_nvd |-> Len(nvd_list),
                   total_cisa |-> Len(kev_list),
                   critical_count |-> 0,
                   severity_distribution |-> <<>>,
                   timeline_data |-> <<>>,
                   vendor_product_count |-> <<>>,
                   cisa_kev_count |-> 0,
                   nvd_only_count |-> 0 ]
        ids == kev_id_set(kev_list)
        f[i \in 0..Len(filtered_list)] ==
            IF i = 0 THEN initial ELSE stats_step(f[i - 1], filtered_list[i], ids)
    IN f[Len(filtered_list)]

aggregate_statistics(filtered_list, nvd_list, kev_list) ==
    LET initial ==
            [ total_ics |-> Len(filtered_list),
              total_nvd |-> Len(nvd_list),
              total_cisa |-> Len(kev_list),
              critical_count |-> 0,
              severity_distribution |-> <<>>,
              timeline_data |-> <<>>,
              vendor_product_count |-> <<>>,
              cisa_kev_count |-> 0,
              nvd_only_count |-> 0 ]
        ids == kev_id_set(kev_list)
        f[i \in 0..Len(filtered_list)] ==
            IF i = 0 THEN initial ELSE stats_step(f[i - 1], filtered_list[i], ids)
    IN f[Len(filtered_list)]

\* s[:n]
Truncate(s, n) == SubSeq(s, 1, IF Len(s) < n THEN Len(s) ELSE n)

\* mutant: the flag of an exploited-catalog record also comes from the ID set
format_record_by_id_only(cve, ids) ==
    [ cve_id |-> get_cve_id(cve),
      is_cisa_kev |-> get_cve_id(cve) \in ids,
      source |-> IF "cve" \in DOMAIN cve THEN "NVD" ELSE "CISA KEV" ]

\* one iteration of the loop of format_cve_data (web_app.py 183-223)
format_record(cve, ids) ==
    LET cve_id == get_cve_id(cve)
        is_in_kev == cve_id \in ids
    IN IF "cve" \in DOMAIN cve
       THEN LET cvss_score == get_cvss_score(cve)
                published_date == IF get_nvd_published_date(cve) # ""
                                  THEN get_nvd_published_date(cve) ELSE "Unknown"
                description == IF get_nvd_description(cve) # ""
                               THEN get_nvd_description(cve)
                               ELSE "No description available"
            IN [ cve_id |-> cve_id,
                 severity_score |-> IF cvss_score > 0 THEN cvss_score ELSE None,
                 severity_rating |-> get_severity_rating(cvss_score),
                 published_date |-> published_date,
                 description |-> Truncate(description, 200),
                 full_description |-> description,
                 is_cisa_kev |-> is_in_kev,
                 source |-> "NVD" ]
       ELSE LET kev_details == get_cisa_kev_details(cve)
            IN [ cve_id |-> kev_details.cve_id,
                 severity_score |-> None,
                 severity_rating |-> "CRITICAL",
                 published_date |-> kev_details.date_added,
                 description |-> kev_details.vulnerability_name,
                 full_description |-> kev_details.vulnerability_name,
                 is_cisa_kev |-> TRUE,
                 source |-> "CISA KEV",
                 vendor_project |-> kev_details.vendor_project,
                 product |-> kev_details.product,
                 due_date |-> kev_details.due_date,
                 known_ransomware_use |-> kev_details.known_ransomware_use,
                 notes |-> kev_details.notes ]

format_cve_data(filtered_list, ids) ==
    [i \in 1..Len(filtered_list) |-> format_record(filtered_list[i], ids)]

\* what main reports of the filtered records (main.py 81-169)
main_report(filtered_list, kev_list) ==
    LET critical(cve) ==
            get_cvss_score(cve) >= 900
                \/ (get_cvss_score(cve) = 0 /\ "cve" \notin DOMAIN cve)
        ids == kev_id_set(kev_list)
        nvd_ics_cves == SelectSeq(filtered_list, LAMBDA cve : "cve" \in DOMAIN cve)
        cisa_ics_kevs == SelectSeq(filtered_list, LAMBDA cve : "cve" \notin DOMAIN cve)
        all_ids == [i \in 1..Len(filtered_list) |-> get_cve_id(filtered_list[i])]
    IN [ total |-> Len(filtered_list),
         critical_count |->
             Len(SelectSeq(filtered_list, LAMBDA cve : critical(cve))),
         cve_ids |-> SelectSeq(all_ids, LAMBDA id : id # ""),
         nvd_lines |->
             [i \in 1..Len(nvd_ics_cves) |->
                 [ cve_id |-> get_cve_id(nvd_ics_cves[i]),
                   severity_rating |-> get_severity_rating(get_cvss_score(nvd_ics_cves[i])),
                   is_in_kev |-> get_cve_id(nvd_ics_cves[i]) \in ids ]],
         kev_lines |->
             [i \in 1..Len(cisa_ics_kevs) |-> get_cisa_kev_details(cisa_ics_kevs[i])] ]

\* the code points of the characters that occur, in ascending order
CodePoints == " ,-.0123456789:ABCDEFGHIJKLMNOPQRSTUVWXYZabcdefghijklmnopqrstuvwxyz"

Ord(c) == CHOOSE i \in 1..Len(CodePoints) : SubSeq(CodePoints, i, i) = c

\* a < b for two str
StrLess(a, b) ==
    \E k \in 1..(Len(a) + 1) :
        /\ k <= Len(b)
        /\ SubSeq(a, 1, k - 1) = SubSeq(b, 1, k - 1)
        /\ \/ k = Len(a) + 1
           \/ Ord(SubSeq(a, k, k)) < Ord(SubSeq(b, k, k))

\* sorted(d.items()): the keys of a dict differ, so the pairs go by key
sorted_items(d) ==
    LET place(i) == 1 + Cardinality({j \in 1..Len(d) : StrLess(d[j][1], d[i][1])})
    IN [p \in 1..Len(d) |-> d[CHOOSE i \in 1..Len(d) : place(i) = p]]

\* sorted(d.items(), key=lambda x: x[1], reverse=True): stable
sorted_by_count_desc(d) ==
    LET place(i) == 1 + Cardinality({j \in 1..Len(d) : d[j][2] > d[i][2]})
                      + Cardinality({j \in 1..(i - 1) : d[j][2] = d[i][2]})
    IN [p \in 1..Len(d) |-> d[CHOOSE i \in 1..Len(d) : place(i) = p]]

\* what api_stats adds to the statistics (web_app.py 353-372)
api_stats_views(st, n_days) ==
    LET timeline_sorted == sorted_items(st.timeline_data)
        vendor_sorted == Truncate(sorted_by_count_desc(st.vendor_product_count), 10)
    IN [ days |-> n_days,
         timeline_dates |-> [i \in 1..Len(timeline_sorted) |-> timeline_sorted[i][1]],
         timeline_counts |-> [i \in 1..Len(timeline_sorted) |-> timeline_sorted[i][2]],
         vendor_labels |-> [i \in 1..Len(vendor_sorted) |-> vendor_sorted[i][1]],
         vendor_counts |-> [i \in 1..Len(vendor_sorted) |-> vendor_sorted[i][2]] ]

NoStats == EmptyObj
NoReport == EmptyObj
NoResponse == EmptyObj
NoOutcome == [nvd |-> "pending", recent |-> "pending", full |-> "pending"]

QueryIdle ==
    /\ today = "" /\ kev_feed = <<>> /\ nvd_world = EmptyObj
    /\ pc = "off" /\ endpoint = "" /\ days = 0
    /\ start_index = 0 /\ results = <<>> /\ response = NoResponse
    /\ outcome = NoOutcome
    /\ nvd_cves = <<>> /\ cisa_kevs = <<>> /\ all_cisa_kevs = <<>>
    /\ ics_filtered = <<>> /\ cisa_kev_cve_ids = {}
    /\ formatted = <<>> /\ stats = NoStats /\ stats_view = NoStats /\ report = NoReport
    /\ stats_calls = {}

(***************************************************************************)
(* filter_ics_vulnerabilities on its own: any list, keywords, threshold.   *)
(***************************************************************************)
MaxLen == 2

KeywordLists == { ICS_KEYWORDS, <<>>, <<"rockwell">>, <<"sql", "PLC">> }
MinSeverities == {0, 10, 700, 900, 1000, 1050}

RatingIdle ==
    rating_arg = 0 /\ rating_ret = "" /\ rating_pc = "idle" /\ rating_prev = <<>>
ScoreIdle == score_obj = EmptyObj /\ score_ret = 0 /\ score_pc = "idle"
FilterIdle ==
    /\ cve_list = <<>> /\ keywords = <<>> /\ min_severity = 0
    /\ filtered = <<>> /\ filter_pc = "idle"

InitFilter ==
    /\ cve_list \in SeqsUpTo(CatalogEntries \cup ExploitedEntries, MaxLen)
    /\ keywords \in KeywordLists
    /\ min_severity \in MinSeverities
    /\ filtered = <<>>
    /\ filter_pc = "start"
    /\ RatingIdle /\ ScoreIdle /\ QueryIdle

FilterCall ==
    /\ filter_pc = "start"
    /\ IF filter_ics_vulnerabilities_raises(cve_list)
       THEN filter_pc' = "raised" /\ UNCHANGED filtered
       ELSE /\ filtered' = filter_ics_vulnerabilities(cve_list, keywords, min_severity)
            /\ filter_pc' = "done"
    /\ UNCHANGED <<cve_list, keywords, min_severity, ratingVars, scoreVars, queryVars>>

NextFilter == FilterCall

SpecFilter == InitFilter /\ [][NextFilter]_vars

(***************************************************************************)
(* What the specification says of a record, written from its section 4.    *)
(***************************************************************************)
IsExploitedEntry(rec) == "cve" \notin DOMAIN rec
IsCatalogEntry(rec) == "cve" \in DOMAIN rec

Occurs(seq, x) == \E i \in 1..Len(seq) : seq[i] = x

\* descriptionOf + " " + tokens, per variant
SpecSearchableText(rec) ==
    IF IsCatalogEntry(rec)
    THEN get_nvd_description(rec) \o " " \o Join(extract_nvd_vendors_products(rec), " ")
    ELSE (IF "vulnerabilityName" \in DOMAIN rec /\ rec.vulnerabilityName # ""
          THEN rec.vulnerabilityName
          ELSE IF "description" \in DOMAIN rec THEN rec.description ELSE "")
         \o " " \o get_cisa_kev_details(rec).vendor_project
         \o " " \o get_cisa_kev_details(rec).product

KeywordHit(rec, kws) ==
    LET text == lower(SpecSearchableText(rec))
    IN \E i \in 1..Len(kws) : Contains(lower(kws[i]), text)

\* sub is seq with some elements left out: order and multiplicity kept
IsSubsequence(sub, seq) ==
    \E f \in [1..Len(sub) -> 1..Len(seq)] :
        /\ \A i, j \in 1..Len(sub) : i < j => f[i] < f[j]
        /\ \A i \in 1..Len(sub) : sub[i] = seq[f[i]]

\* C4: an ExploitedEntry has score 0.0 and the filter keeps it if and only if
\* the keyword test passes, whatever min_severity is (also above 10.0).
C4_ExploitedNeverRejectedOnScore ==
    filter_pc = "done" =>
        \A i \in 1..Len(cve_list) :
            IsExploitedEntry(cve_list[i]) =>
                /\ get_cvss_score(cve_list[i]) = 0
                /\ Occurs(filtered, cve_list[i]) <=> KeywordHit(cve_list[i], keywords)

C4_Witness ==
    /\ filter_pc = "done"
    /\ min_severity > 1000
    /\ \E i \in 1..Len(cve_list) :
          IsExploitedEntry(cve_list[i]) /\ Occurs(filtered, cve_list[i])

\* C5: a CatalogEntry whose extracted score is strictly below min_severity is
\* excluded whether or not a keyword matches; one with no score (0.0) is
\* excluded for every min_severity > 0.
C5_LowScoreCatalogEntryExcluded ==
    filter_pc = "done" =>
        \A i \in 1..Len(cve_list) :
            (IsCatalogEntry(cve_list[i]) /\ get_cvss_score(cve_list[i]) < min_severity)
                => ~Occurs(filtered, cve_list[i])

C5_Witness ==
    /\ filter_pc = "done"
    /\ min_severity > 0
    /\ \E i \in 1..Len(cve_list) :
          /\ IsCatalogEntry(cve_list[i])
          /\ get_cvss_score(cve_list[i]) = 0
          /\ KeywordHit(cve_list[i], keywords)
          /\ ~Occurs(filtered, cve_list[i])

\* C6: every kept record has a keyword as a case-insensitive substring of its
\* searchable text (so a record matching none is rejected whatever its score),
\* and a CatalogEntry with a keyword hit, also one only through a CPE token,
\* is kept when its score passes.
C6_KeptOnlyOnKeywordHit ==
    filter_pc = "done" =>
        /\ \A i \in 1..Len(filtered) : KeywordHit(filtered[i], keywords)
        /\ \A i \in 1..Len(cve_list) :
              ( /\ IsCatalogEntry(cve_list[i])
                /\ KeywordHit(cve_list[i], keywords)
                /\ get_cvss_score(cve_list[i]) >= min_severity )
                  => Occurs(filtered, cve_list[i])

\* a kept record whose hit is in a CPE token only, beside a rejected score 9.9
C6_Witness ==
    /\ filter_pc = "done"
    /\ \E i \in 1..Len(filtered) :
          /\ IsCatalogEntry(filtered[i])
          /\ ~\E k \in 1..Len(keywords) :
                 Contains(lower(keywords[k]), lower(get_nvd_description(filtered[i])))
    /\ \E i \in 1..Len(cve_list) :
          /\ get_cvss_score(cve_list[i]) = 990
          /\ ~Occurs(filtered, cve_list[i])

\* C7: the result is a subsequence of the input (only input records, each
\* unmodified, no more often than in the input, in the original order) and
\* the call leaves the input list as it was.
C7_ResultIsSubsequence ==
    [][filter_pc = "start" =>
          /\ IsSubsequence(filtered', cve_list)
          /\ cve_list' = cve_list]_vars

\* two different records of the two variants kept, in input order
C7_Witness ==
    /\ filter_pc = "done"
    /\ Len(filtered) >= 2
    /\ IsCatalogEntry(filtered[1]) /\ IsExploitedEntry(filtered[2])
    /\ filtered = cve_list

(***************************************************************************)
(* get_severity_rating on its own: a first call on any score of the range, *)
(* then further calls on the scores around the tier boundaries.            *)
(***************************************************************************)
MaxScore == 1100
MaxNegative == 100

BoundaryScores == {-1, 0, 5, 10, 399, 400, 690, 700, 890, 900, 1000}

InitRating ==
    /\ rating_arg \in (0 - MaxNegative)..MaxScore
    /\ rating_ret = ""
    /\ rating_pc = "start"
    /\ rating_prev = <<>>
    /\ FilterIdle /\ ScoreIdle /\ QueryIdle

RatingCall ==
    /\ rating_pc = "start"
    /\ rating_ret' = get_severity_rating(rating_arg)
    /\ rating_pc' = "done"
    /\ UNCHANGED <<rating_arg, rating_prev, filterVars, scoreVars, queryVars>>

\* the caller keeps the last result and asks for another score
RatingAgain ==
    /\ rating_pc = "done"
    /\ rating_prev' = <<rating_arg, rating_ret>>
    /\ rating_arg' \in BoundaryScores
    /\ rating_pc' = "start"
    /\ UNCHANGED <<rating_ret, filterVars, scoreVars, queryVars>>

NextRating == RatingCall \/ RatingAgain

SpecRating == InitRating /\ [][NextRating]_vars

Rank(rating) ==
    CASE rating = "Unknown" -> 0
      [] rating = "LOW" -> 1
      [] rating = "MEDIUM" -> 2
      [] rating = "HIGH" -> 3
      [] rating = "CRITICAL" -> 4

\* C8: lower-bound-inclusive tiers (>= 9.0 CRITICAL, >= 7.0 HIGH, >= 4.0
\* MEDIUM, >= 0.1 LOW, everything below 0.1 Unknown) and a rating that never
\* decreases when the score increases.
C8_RatingTiersMonotonic ==
    rating_pc = "done" =>
        /\ rating_ret = "CRITICAL" <=> rating_arg >= 900
        /\ rating_ret = "HIGH" <=> (700 <= rating_arg /\ rating_arg < 900)
        /\ rating_ret = "MEDIUM" <=> (400 <= rating_arg /\ rating_arg < 700)
        /\ rating_ret = "LOW" <=> (10 <= rating_arg /\ rating_arg < 400)
        /\ rating_ret = "Unknown" <=> rating_arg < 10
        /\ rating_prev # <<>> =>
              /\ rating_prev[1] <= rating_arg => Rank(rating_prev[2]) <= Rank(rating_ret)
              /\ rating_prev[1] >= rating_arg => Rank(rating_prev[2]) >= Rank(rating_ret)

\* rating(8.9) = HIGH followed by rating(9.0) = CRITICAL
C8_Witness ==
    /\ rating_pc = "done"
    /\ rating_prev = <<890, "HIGH">>
    /\ rating_arg = 900 /\ rating_ret = "CRITICAL"

(***************************************************************************)
(* get_cvss_score on its own: any mix of entries under the three schemes.  *)
(***************************************************************************)
Schemes == <<"cvssMetricV31", "cvssMetricV30", "cvssMetricV2">>

SchemeEntries ==
    { <<>>, << Entry(0) >>, << Entry(980) >>, << Entry(0), Entry(750) >>,
      << [source |-> "nvd@nist.gov"], Entry(910) >>, << Entry(540), Entry(0) >> }

MetricsUniverse ==
    UNION { [P -> SchemeEntries] : P \in SUBSET {Schemes[i] : i \in 1..Len(Schemes)} }

ScoreObjs ==
    { [cve |-> [id |-> "CVE-2024-0100", metrics |-> m]] : m \in MetricsUniverse }
        \cup CatalogEntries \cup ExploitedEntries

InitScore ==
    /\ score_obj \in ScoreObjs
    /\ score_ret = 0
    /\ score_pc = "start"
    /\ FilterIdle /\ RatingIdle /\ QueryIdle

ScoreCall ==
    /\ score_pc = "start"
    /\ score_ret' = get_cvss_score(score_obj)
    /\ score_pc' = "done"
    /\ UNCHANGED <<score_obj, filterVars, ratingVars, queryVars>>

NextScore == ScoreCall

SpecScore == InitScore /\ [][NextScore]_vars

BaseScoreOf(entry) ==
    IF "cvssData" \in DOMAIN entry /\ "baseScore" \in DOMAIN entry.cvssData
    THEN entry.cvssData.baseScore
    ELSE 0

EntriesOf(rec, scheme) ==
    IF "metrics" \in DOMAIN rec.cve /\ scheme \in DOMAIN rec.cve.metrics
    THEN rec.cve.metrics[scheme]
    ELSE <<>>

\* the first non-zero base score among all entries of a scheme, 0 if none
FirstNonZeroAmongEntries(rec, scheme) ==
    LET entries == EntriesOf(rec, scheme)
        nz == {i \in 1..Len(entries) : BaseScoreOf(entries[i]) # 0}
    IN IF nz = {} THEN 0 ELSE BaseScoreOf(entries[Min(nz)])

\* the base score of the first entry of a scheme, 0 if it has none
FirstEntryScore(rec, scheme) ==
    LET entries == EntriesOf(rec, scheme)
    IN IF Len(entries) = 0 THEN 0 ELSE BaseScoreOf(entries[1])

\* the first non-zero value of per_scheme, a sequence in priority order
FirstNonZero(per_scheme) ==
    LET nz == {i \in 1..Len(per_scheme) : per_scheme[i] # 0}
    IN IF nz = {} THEN 0 ELSE per_scheme[Min(nz)]

\* C9 as stated: the score is the first non-zero base score among any of the
\* entries of the first scheme, in priority order, that has one.
C9_AnyEntryOfScheme ==
    (score_pc = "done" /\ IsCatalogEntry(score_obj)) =>
        score_ret = FirstNonZero([i \in 1..Len(Schemes) |->
                        FirstNonZeroAmongEntries(score_obj, Schemes[i])])

\* C9 amended: only the first entry listed under each scheme is read; the
\* score is the base score of the first scheme, in priority order, whose
\* first entry has a non-zero base score, and 0.0 if there is none.
C9_FirstEntryOfScheme ==
    (score_pc = "done" /\ IsCatalogEntry(score_obj)) =>
        score_ret = FirstNonZero([i \in 1..Len(Schemes) |->
                        FirstEntryScore(score_obj, Schemes[i])])

\* the newest scheme has a zero first entry and a non-zero later one, and the
\* score returned is that of the oldest scheme
C9_Witness ==
    /\ score_pc = "done"
    /\ IsCatalogEntry(score_obj)
    /\ FirstEntryScore(score_obj, "cvssMetricV31") = 0
    /\ FirstNonZeroAmongEntries(score_obj, "cvssMetricV31") # 0
    /\ FirstEntryScore(score_obj, "cvssMetricV30") = 0
    /\ score_ret # 0
    /\ score_ret = FirstEntryScore(score_obj, "cvssMetricV2")

(***************************************************************************)
(* One query end to end: fetch_and_filter_data followed by format_cve_data *)
(* (/api/data) or aggregate_statistics (/api/stats), and main (the CLI).   *)
(* The upstream answers each request as it pleases.                        *)
(***************************************************************************)
results_per_page == 2000

TodayChoices == {"2024-06-15"}
DaysArgs == {0, 7, 400}
Endpoints == {"api_data", "api_stats", "main"}

KevFeeds ==
    { <<>>,
      << KevRockwell, KevWindows >>,
      << KevScada, KevRockwell, KevIsoDate, KevNoDate >>,
      << KevBadDate, KevWindows, KevIsoDate, KevNoId >> }

\* the pages the general feed serves and the other keys of its JSON object
NvdWorlds ==
    { [pages |-> <<>>, envelope |-> [totalResults |-> 0]],
      [pages |-> << <<NvdSiemens, NvdSql>> >>, envelope |-> [totalResults |-> 2]],
      [pages |-> << <<NvdCpeOnly, NvdNoId>> >>, envelope |-> EmptyObj],
      [pages |-> << <<NvdSiemens>>, <<NvdLow, NvdCpeOnly>> >>,
       envelope |-> [totalResults |-> 2003]] }

\* the JSON object served for a start index
PageData(world, index) ==
    LET p == index \div results_per_page + 1
    IN IF p <= Len(world.pages)
       THEN [vulnerabilities |-> world.pages[p]] @@ world.envelope
       ELSE world.envelope

\* what session.get can bring back for a start index
NvdResponses(world, index) ==
    { [kind |-> "network_error"],
      [kind |-> "http", status_code |-> 429],
      [kind |-> "http", status_code |-> 503],
      [kind |-> "http", status_code |-> 404],
      [kind |-> "http", status_code |-> 200, body |-> "invalid_json"],
      [kind |-> "http", status_code |-> 200, body |-> "not_object"],
      [kind |-> "http", status_code |-> 200, body |-> "object",
       data |-> PageData(world, index)] }

\* failures of a fetch of the exploited catalog: RequestException (network,
\* status), ValueError (JSON), AttributeError (JSON that is no object)
CisaFailures == {"network_error", "http_error", "invalid_json", "not_object"}

Max2(a, b) == IF a >= b THEN a ELSE b
Min2(a, b) == IF a <= b THEN a ELSE b

Init ==
    /\ today \in TodayChoices
    /\ kev_feed \in KevFeeds
    /\ nvd_world \in NvdWorlds
    /\ pc = "idle" /\ endpoint = "" /\ days = 0
    /\ start_index = 0 /\ results = <<>> /\ response = NoResponse
    /\ outcome = NoOutcome
    /\ nvd_cves = <<>> /\ cisa_kevs = <<>> /\ all_cisa_kevs = <<>>
    /\ ics_filtered = <<>> /\ cisa_kev_cve_ids = {}
    /\ formatted = <<>> /\ stats = NoStats /\ stats_view = NoStats /\ report = NoReport
    /\ stats_calls = {}
    /\ FilterIdle /\ RatingIdle /\ ScoreIdle

\* a request arrives (days clamped to [1, 365]) or the CLI starts (days = 7);
\* every query starts from fresh locals
Request ==
    /\ pc \in {"idle", "done"}
    /\ \E ep \in Endpoints, d \in DaysArgs :
          /\ endpoint' = ep
          /\ days' = IF ep = "main" THEN 7 ELSE Max2(1, Min2(d, 365))
    /\ pc' = "nvd_request"
    /\ start_index' = 0 /\ results' = <<>> /\ response' = NoResponse
    /\ outcome' = NoOutcome
    /\ nvd_cves' = <<>> /\ cisa_kevs' = <<>> /\ all_cisa_kevs' = <<>>
    /\ ics_filtered' = <<>> /\ cisa_kev_cve_ids' = {}
    /\ formatted' = <<>> /\ stats' = NoStats /\ stats_view' = NoStats /\ report' = NoReport
    /\ UNCHANGED <<worldVars, pureVars>>

\* session.get for the current start index (nvd_client.py 52-67)
NvdGet ==
    /\ pc = "nvd_request"
    /\ response' \in NvdResponses(nvd_world, start_index)
    /\ pc' = "nvd_response"
    /\ UNCHANGED <<worldVars, endpoint, days, start_index, results, outcome,
                   localVars, outVars, pureVars>>

\* fetch_recent_cves returns res, or raises, to its caller (web_app.py 61-65)
NvdReturn(res, how) ==
    /\ nvd_cves' = res
    /\ outcome' = [outcome EXCEPT !.nvd = how]
    /\ pc' = "cisa_recent"
    /\ response' = NoResponse
    /\ UNCHANGED <<worldVars, endpoint, days, start_index,
                   cisa_kevs, all_cisa_kevs, ics_filtered, cisa_kev_cve_ids,
                   outVars, pureVars>>

\* the loop goes round with the same start index (continue)
NvdRetry ==
    /\ pc' = "nvd_request"
    /\ response' = NoResponse
    /\ UNCHANGED <<worldVars, endpoint, days, start_index, results, outcome,
                   localVars, outVars, pureVars>>

\* requests.RequestException: break (65-67)
NvdNetworkError ==
    /\ pc = "nvd_response" /\ response.kind = "network_error"
    /\ UNCHANGED results
    /\ NvdReturn(results, "stopped")

\* 429: wait 30 seconds and retry (70-75)
NvdRateLimited ==
    /\ pc = "nvd_response" /\ response.kind = "http"
    /\ response.status_code = 429
    /\ NvdRetry

\* 5xx: wait 10 seconds and retry (76-81)
NvdServerError ==
    /\ pc = "nvd_response" /\ response.kind = "http"
    /\ response.status_code # 429 /\ response.status_code >= 500
    /\ NvdRetry

\* any other status but 200: break (82-87)
NvdBadStatus ==
    /\ pc = "nvd_response" /\ response.kind = "http"
    /\ response.status_code # 429 /\ response.status_code < 500
    /\ response.status_code # 200
    /\ UNCHANGED results
    /\ NvdReturn(results, "stopped")

\* response.json() raises ValueError: break (90-94)
NvdInvalidJson ==
    /\ pc = "nvd_response" /\ response.kind = "http"
    /\ response.status_code = 200 /\ response.body = "invalid_json"
    /\ UNCHANGED results
    /\ NvdReturn(results, "stopped")

\* the JSON is no object: data.get raises AttributeError out of the client,
\* and the caller substitutes [] (nvd_client.py 97, web_app.py 63-65)
NvdNotObject ==
    /\ pc = "nvd_response" /\ response.kind = "http"
    /\ response.status_code = 200 /\ response.body = "not_object"
    /\ UNCHANGED results
    /\ NvdReturn(<<>>, "raised")

\* no vulnerabilities in the page: break (97-101)
NvdEmptyPage ==
    /\ pc = "nvd_response" /\ response.kind = "http"
    /\ response.status_code = 200 /\ response.body = "object"
    /\ Len(Get(response.data, "vulnerabilities", <<>>)) = 0
    /\ UNCHANGED results
    /\ NvdReturn(results, "complete")

\* a page: extend the results, advance, and stop when all are fetched (105-124)
NvdPage ==
    /\ pc = "nvd_response" /\ response.kind = "http"
    /\ response.status_code = 200 /\ response.body = "object"
    /\ LET vulnerabilities == Get(response.data, "vulnerabilities", <<>>)
           total_results == Get(response.data, "totalResults", 0)
       IN /\ Len(vulnerabilities) > 0
          /\ results' = results \o vulnerabilities
          /\ IF start_index + results_per_page >= total_results
             THEN /\ nvd_cves' = results'
                  /\ outcome' = [outcome EXCEPT !.nvd = "complete"]
                  /\ pc' = "cisa_recent"
             ELSE /\ pc' = "nvd_request"
                  /\ UNCHANGED <<nvd_cves, outcome>>
    /\ start_index' = start_index + results_per_page
    /\ response' = NoResponse
    /\ UNCHANGED <<worldVars, endpoint, days, cisa_kevs, all_cisa_kevs, ics_filtered,
                   cisa_kev_cve_ids, outVars, pureVars>>

AfterRecent == IF endpoint = "main" THEN "main_report" ELSE "cisa_full"

\* get_recent_kevs returns (web_app.py 69-70, main.py 49-51)
GetRecentKevsOk ==
    /\ pc = "cisa_recent"
    /\ LET data == [vulnerabilities |-> kev_feed]
       IN cisa_kevs' = recent_kevs_of(Get(data, "vulnerabilities", <<>>), today, days)
    /\ outcome' = [outcome EXCEPT !.recent = "ok"]
    /\ pc' = AfterRecent
    /\ UNCHANGED <<worldVars, endpoint, days, nvdVars, nvd_cves, all_cisa_kevs,
                   ics_filtered, cisa_kev_cve_ids, outVars, pureVars>>

\* fetch_kev_catalog raises inside get_recent_kevs (web_app.py 71-73)
GetRecentKevsRaises ==
    /\ pc = "cisa_recent"
    /\ \E failure \in CisaFailures : outcome' = [outcome EXCEPT !.recent = failure]
    /\ cisa_kevs' = <<>>
    /\ pc' = AfterRecent
    /\ UNCHANGED <<worldVars, endpoint, days, nvdVars, nvd_cves, all_cisa_kevs,
                   ics_filtered, cisa_kev_cve_ids, outVars, pureVars>>

\* the second fetch, of the full catalog (web_app.py 77-78)
FetchKevCatalogOk ==
    /\ pc = "cisa_full"
    /\ LET data == [vulnerabilities |-> kev_feed]
       IN all_cisa_kevs' = Get(data, "vulnerabilities", <<>>)
    /\ outcome' = [outcome EXCEPT !.full = "ok"]
    /\ pc' = "filter"
    /\ UNCHANGED <<worldVars, endpoint, days, nvdVars, nvd_cves, cisa_kevs,
                   ics_filtered, cisa_kev_cve_ids, outVars, pureVars>>

\* the second fetch raises (web_app.py 79-81)
FetchKevCatalogRaises ==
    /\ pc = "cisa_full"
    /\ \E failure \in CisaFailures : outcome' = [outcome EXCEPT !.full = failure]
    /\ all_cisa_kevs' = <<>>
    /\ pc' = "filter"
    /\ UNCHANGED <<worldVars, endpoint, days, nvdVars, nvd_cves, cisa_kevs,
                   ics_filtered, cisa_kev_cve_ids, outVars, pureVars>>

\* the rest of fetch_and_filter_data (web_app.py 84-91)
FilterAndIndex ==
    /\ pc = "filter"
    /\ LET all_cves == nvd_cves \o cisa_kevs
       IN ics_filtered' = filter_ics_vulnerabilities(all_cves, ICS_KEYWORDS, 700)
    /\ cisa_kev_cve_ids' = full_kev_id_set(all_cisa_kevs)
    /\ pc' = IF endpoint = "api_data" THEN "format" ELSE "aggregate"
    /\ UNCHANGED <<worldVars, endpoint, days, nvdVars, outcome, nvd_cves, cisa_kevs,
                   all_cisa_kevs, outVars, pureVars>>

\* api_data after the fetch (web_app.py 245)
FormatCall ==
    /\ pc = "format"
    /\ formatted' = format_cve_data(ics_filtered, cisa_kev_cve_ids)
    /\ pc' = "done"
    /\ UNCHANGED <<worldVars, endpoint, days, nvdVars, outcome, localVars,
                   stats, stats_view, report, pureVars>>

\* api_stats after the fetch (web_app.py 352-372)
AggregateCall ==
    /\ pc = "aggregate"
    /\ stats' = aggregate_statistics(ics_filtered, nvd_cves, cisa_kevs)
    /\ stats_view' = api_stats_views(stats', days)
    /\ pc' = "done"
    /\ UNCHANGED <<worldVars, endpoint, days, nvdVars, outcome, localVars,
                   formatted, report, pureVars>>

\* main after its two fetches (main.py 75-169)
MainReport ==
    /\ pc = "main_report"
    /\ LET all_cves == nvd_cves \o cisa_kevs
       IN ics_filtered' = filter_ics_vulnerabilities(all_cves, ICS_KEYWORDS, 700)
    /\ report' = main_report(ics_filtered', cisa_kevs)
    /\ pc' = "done"
    /\ UNCHANGED <<worldVars, endpoint, days, nvdVars, outcome, nvd_cves, cisa_kevs,
                   all_cisa_kevs, cisa_kev_cve_ids, formatted, stats, stats_view,
                   pureVars>>

Next ==
    \/ Request
    \/ NvdGet
    \/ NvdNetworkError
    \/ NvdRateLimited
    \/ NvdServerError
    \/ NvdBadStatus
    \/ NvdInvalidJson
    \/ NvdNotObject
    \/ NvdEmptyPage
    \/ NvdPage
    \/ GetRecentKevsOk
    \/ GetRecentKevsRaises
    \/ FetchKevCatalogOk
    \/ FetchKevCatalogRaises
    \/ FilterAndIndex
    \/ FormatCall
    \/ AggregateCall
    \/ MainReport

Spec == Init /\ [][Next]_vars

\* the process keeps running: a step that can be taken is taken
FairSpec == Spec /\ WF_vars(Next)

(***************************************************************************)
(* format_cve_data and aggregate_statistics on their own: any filtered     *)
(* list, any ID set, any list of exploited entries.                        *)
(***************************************************************************)
CrossRefRecords == CatalogEntries \cup ExploitedEntries \cup {NvdNoId, KevNoId}

IdSets == SUBSET {"CVE-2024-0001", "CVE-2024-0006", "CVE-2023-1111", ""}

KevLists ==
    { <<>>,
      << KevRockwell >>,
      << KevScada, KevIsoDate >>,
      << KevWindows, KevRockwell, KevScada >>,
      << KevNoId, KevRockwell >> }

StageInit(stage, ep) ==
    /\ today = "" /\ kev_feed = <<>> /\ nvd_world = EmptyObj
    /\ pc = stage /\ endpoint = ep /\ days = 0
    /\ start_index = 0 /\ results = <<>> /\ response = NoResponse
    /\ outcome = NoOutcome
    /\ all_cisa_kevs = <<>>
    /\ formatted = <<>> /\ stats = NoStats /\ stats_view = NoStats /\ report = NoReport
    /\ stats_calls = {}
    /\ FilterIdle /\ RatingIdle /\ ScoreIdle

InitFormat ==
    /\ StageInit("format", "api_data")
    /\ ics_filtered \in SeqsUpTo(CrossRefRecords, MaxLen)
    /\ cisa_kev_cve_ids \in IdSets
    /\ nvd_cves = <<>> /\ cisa_kevs = <<>>

NextFormat == FormatCall

SpecFormat == InitFormat /\ [][NextFormat]_vars

InitAggregate ==
    /\ StageInit("aggregate", "api_stats")
    /\ ics_filtered \in SeqsUpTo(CrossRefRecords, MaxLen)
    /\ cisa_kevs \in KevLists
    /\ nvd_cves \in {<<>>, <<NvdSql>>}
    /\ cisa_kev_cve_ids = {}

NextAggregate == AggregateCall

SpecAggregate == InitAggregate /\ [][NextAggregate]_vars

(***************************************************************************)
(* Cross-reference against the exploited catalog.                          *)
(***************************************************************************)
\* the ID set of the complete exploited catalog the upstream holds
CatalogIds == {get_cve_id(kev_feed[i]) : i \in 1..Len(kev_feed)} \ {""}

KnownExploited(rec) == IsExploitedEntry(rec) \/ get_cve_id(rec) \in CatalogIds

KnownExploitedCount ==
    Cardinality({i \in 1..Len(ics_filtered) : KnownExploited(ics_filtered[i])})

\* the query ended and its fetches of the exploited catalog succeeded
CatalogFetched ==
    /\ pc = "done"
    /\ outcome.recent = "ok"
    /\ endpoint # "main" => outcome.full = "ok"

\* C1: in every query whose fetches of the exploited catalog succeed, a
\* filtered record is treated as known-exploited exactly when it is an
\* ExploitedEntry or its ID is in the complete catalog, whether or not the
\* entry falls in the date window: /api/data flags it, /api/stats counts it in
\* cisa_kev_count and under CRITICAL, and the CLI reports it as in the catalog.
C1_CrossReferenceUsesFullCatalog ==
    CatalogFetched =>
        /\ endpoint = "api_data" =>
              \A i \in 1..Len(ics_filtered) :
                  formatted[i].is_cisa_kev = KnownExploited(ics_filtered[i])
        /\ endpoint = "api_stats" =>
              /\ stats.cisa_kev_count = KnownExploitedCount
              /\ DictGet(stats.severity_distribution, "CRITICAL", 0)
                    >= KnownExploitedCount
        /\ endpoint = "main" =>
              \A i \in 1..Len(report.nvd_lines) :
                  report.nvd_lines[i].is_in_kev
                      = (report.nvd_lines[i].cve_id \in CatalogIds)

\* C2: format_cve_data returns one record per input record, in order, and the
\* is_cisa_kev flag of each is (its ID is in the given set) or (it is an
\* ExploitedEntry); so CVE-2024-0001 of the general feed is flagged exactly
\* when the given set holds its ID.
C2_FormatFlagsEveryRecord ==
    pc = "done" /\ endpoint = "api_data" =>
        /\ Len(formatted) = Len(ics_filtered)
        /\ \A i \in 1..Len(ics_filtered) :
              /\ formatted[i].cve_id = get_cve_id(ics_filtered[i])
              /\ formatted[i].source
                    = (IF IsExploitedEntry(ics_filtered[i]) THEN "CISA KEV" ELSE "NVD")
              /\ formatted[i].is_cisa_kev
                    = (get_cve_id(ics_filtered[i]) \in cisa_kev_cve_ids
                          \/ IsExploitedEntry(ics_filtered[i]))
              /\ ics_filtered[i] = NvdSiemens =>
                    formatted[i].is_cisa_kev = ("CVE-2024-0001" \in cisa_kev_cve_ids)

\* an exploited entry whose ID the set lacks is flagged, next to a record of
\* the general feed that is not
C2_Witness ==
    /\ pc = "done" /\ endpoint = "api_data"
    /\ Len(ics_filtered) = 2
    /\ ics_filtered[1] = KevScada /\ ics_filtered[2] = NvdSiemens
    /\ cisa_kev_cve_ids = {"CVE-2023-1111"}
    /\ formatted[1].is_cisa_kev /\ ~formatted[2].is_cisa_kev

\* C3: whatever the upstream fetches do, fetch_and_filter_data returns: a
\* query of the dashboard that has started its fetches reaches the step after
\* fetch_and_filter_data.
C3_FetchAndFilterReturns ==
    (pc = "nvd_request" /\ endpoint # "main") ~> (pc \in {"format", "aggregate"})

(***************************************************************************)
(* The severity distribution.                                              *)
(***************************************************************************)
Ratings == {"CRITICAL", "HIGH", "MEDIUM", "LOW", "Unknown"}

\* the cross-reference set aggregate_statistics is given the entries of
UsedIds == {get_cve_id(cisa_kevs[i]) : i \in 1..Len(cisa_kevs)}

ExpectedRating(rec) ==
    IF IsExploitedEntry(rec) \/ get_cve_id(rec) \in UsedIds
    THEN "CRITICAL"
    ELSE get_severity_rating(get_cvss_score(rec))

\* C10: the severity distribution counts every known-exploited record (an
\* ExploitedEntry, or one whose ID is in the set used for cross-reference)
\* under CRITICAL whatever its score, every other record under
\* get_severity_rating of its score (Unknown for 0), and each record once.
C10_DistributionForcesCritical ==
    pc = "done" /\ endpoint = "api_stats" =>
        LET dist == stats.severity_distribution
        IN /\ \A k \in 1..Len(dist) : dist[k][1] \in Ratings
           /\ \A k, l \in 1..Len(dist) : dist[k][1] = dist[l][1] => k = l
           /\ \A r \in Ratings :
                 DictGet(dist, r, 0)
                    = Cardinality({i \in 1..Len(ics_filtered) :
                                      ExpectedRating(ics_filtered[i]) = r})

\* a MEDIUM record of the general feed whose ID is in the set, counted under
\* CRITICAL, next to an unscored one counted under Unknown
C10_Witness ==
    /\ pc = "done" /\ endpoint = "api_stats"
    /\ ics_filtered = << NvdMulti, NvdNoScore >>
    /\ get_cvss_score(NvdMulti) = 500
    /\ "CVE-2024-0006" \in UsedIds
    /\ stats.severity_distribution = << <<"CRITICAL", 1>>, <<"Unknown", 1>> >>

(***************************************************************************)
(* The counters of aggregate_statistics.                                   *)
(***************************************************************************)
\* known-exploited by the set aggregate_statistics cross-references against
UsedKnownExploited(rec) == IsExploitedEntry(rec) \/ get_cve_id(rec) \in UsedIds

\* the records of the general feed that are known-exploited with a score
\* strictly between 0 and 9.0
ExploitedBelowCritical ==
    {i \in 1..Len(ics_filtered) :
        /\ IsCatalogEntry(ics_filtered[i])
        /\ get_cvss_score(ics_filtered[i]) > 0
        /\ get_cvss_score(ics_filtered[i]) < 900
        /\ UsedKnownExploited(ics_filtered[i])}

CountedCritical ==
    {i \in 1..Len(ics_filtered) :
        \/ get_cvss_score(ics_filtered[i]) >= 900
        \/ get_cvss_score(ics_filtered[i]) = 0 /\ UsedKnownExploited(ics_filtered[i])}

DictSum(d) ==
    LET f[i \in 0..Len(d)] == IF i = 0 THEN 0 ELSE f[i - 1] + d[i][2]
    IN f[Len(d)]

\* C18: critical_count never exceeds the CRITICAL count of the distribution
\* (a record counted in critical_count is also counted under CRITICAL).
C18_CriticalCountWithinDistribution ==
    pc = "done" /\ endpoint = "api_stats" =>
        /\ stats.critical_count <= DictGet(stats.severity_distribution, "CRITICAL", 0)
        /\ \A i \in CountedCritical :
              ExpectedRating(ics_filtered[i]) = "CRITICAL"

\* the converse fails: more records under CRITICAL than in critical_count
C18_Witness ==
    /\ pc = "done" /\ endpoint = "api_stats"
    /\ stats.critical_count > 0
    /\ stats.critical_count < DictGet(stats.severity_distribution, "CRITICAL", 0)

HasDate(rec) ==
    IF IsCatalogEntry(rec) THEN get_nvd_published_date(rec) # ""
    ELSE get_cisa_kev_details(rec).date_added # ""

\* C19: the two source counters and the distribution each partition the
\* filtered records (their sums equal total_ics, the length of the list), and
\* the timeline counts sum to at most total_ics, to exactly total_ics when
\* every record has a date.
C19_CountersPartitionRecords ==
    pc = "done" /\ endpoint = "api_stats" =>
        /\ stats.total_ics = Len(ics_filtered)
        /\ stats.cisa_kev_count + stats.nvd_only_count = stats.total_ics
        /\ DictSum(stats.severity_distribution) = stats.total_ics
        /\ DictSum(stats.timeline_data) <= stats.total_ics
        /\ DictSum(stats.timeline_data)
              = Cardinality({i \in 1..Len(ics_filtered) : HasDate(ics_filtered[i])})

\* both counters non-zero and a record without a date
C19_Witness ==
    /\ pc = "done" /\ endpoint = "api_stats"
    /\ stats.cisa_kev_count = 1 /\ stats.nvd_only_count = 1
    /\ \E i \in 1..Len(ics_filtered) : ~HasDate(ics_filtered[i])
    /\ DictSum(stats.timeline_data) = 1

(***************************************************************************)
(* The vendor/product histogram.                                           *)
(***************************************************************************)
VendorOf(rec) == get_cisa_kev_details(rec).vendor_project
ProductOf(rec) == get_cisa_kev_details(rec).product
CombinedOf(rec) == VendorOf(rec) \o " - " \o ProductOf(rec)

KeywordInDescription(rec, k) ==
    /\ Occurs(ICS_KEYWORDS, k)
    /\ Contains(lower(k), lower(get_nvd_description(rec)))

\* what a record adds to the counter k, as the claim states it
StatedIncrement(rec, k) ==
    IF IsCatalogEntry(rec)
    THEN (IF KeywordInDescription(rec, k) THEN 1 ELSE 0)
    ELSE (IF k = VendorOf(rec) THEN 1 ELSE 0) + (IF k = CombinedOf(rec) THEN 1 ELSE 0)

\* the same, an exploited entry adding for its vendor only when it has one and
\* for the combined string only when it has a product
NonEmptyIncrement(rec, k) ==
    IF IsCatalogEntry(rec)
    THEN (IF KeywordInDescription(rec, k) THEN 1 ELSE 0)
    ELSE (IF VendorOf(rec) # "" /\ k = VendorOf(rec) THEN 1 ELSE 0)
            + (IF ProductOf(rec) # "" /\ k = CombinedOf(rec) THEN 1 ELSE 0)

\* every counter a record could touch, and every counter there is
HistogramKeys ==
    {ICS_KEYWORDS[i] : i \in 1..Len(ICS_KEYWORDS)}
        \cup {stats.vendor_product_count[i][1] : i \in 1..Len(stats.vendor_product_count)}
        \cup {VendorOf(ics_filtered[i]) : i \in 1..Len(ics_filtered)}
        \cup {CombinedOf(ics_filtered[i]) : i \in 1..Len(ics_filtered)}

StatedTotal(k) ==
    LET f[i \in 0..Len(ics_filtered)] ==
            IF i = 0 THEN 0 ELSE f[i - 1] + StatedIncrement(ics_filtered[i], k)
    IN f[Len(ics_filtered)]

NonEmptyTotal(k) ==
    LET f[i \in 0..Len(ics_filtered)] ==
            IF i = 0 THEN 0 ELSE f[i - 1] + NonEmptyIncrement(ics_filtered[i], k)
    IN f[Len(ics_filtered)]

\* C16 as stated: every counter of the vendor/product histogram holds 1 per
\* CatalogEntry whose description contains that configured keyword
\* (case-insensitive; CPE tokens do not count) plus, per ExploitedEntry, 1 for
\* its vendor and 1 for its "vendor - product" string, and nothing else.
C16_HistogramAsStated ==
    pc = "done" /\ endpoint = "api_stats" =>
        \A k \in HistogramKeys :
            DictGet(stats.vendor_product_count, k, 0) = StatedTotal(k)

\* C16 amended: the same, where an ExploitedEntry adds 1 for its vendor only
\* if the vendor is non-empty and 1 for "vendor - product" only if the product
\* is non-empty.
C16_HistogramNonEmptyFields ==
    pc = "done" /\ endpoint = "api_stats" =>
        /\ \A k \in HistogramKeys :
              DictGet(stats.vendor_product_count, k, 0) = NonEmptyTotal(k)
        /\ \A i, j \in 1..Len(stats.vendor_product_count) :
              stats.vendor_product_count[i][1] = stats.vendor_product_count[j][1] => i = j

\* a CatalogEntry matching Rockwell only through a CPE token adds nothing to
\* the counter the exploited entry of that vendor raises to 1
C16_Witness ==
    /\ pc = "done" /\ endpoint = "api_stats"
    /\ ics_filtered = << NvdCpeOnly, KevRockwell >>
    /\ matches_keywords(searchable_text(NvdCpeOnly), <<"Rockwell">>)
    /\ stats.vendor_product_count
          = << <<"Rockwell", 1>>, <<"Rockwell - PLC firmware", 1>> >>

(***************************************************************************)
(* Records without an ID.                                                  *)
(***************************************************************************)
HasNoId(rec) == IsCatalogEntry(rec) /\ get_cve_id(rec) = ""

\* C20: a CatalogEntry without an ID is never treated as known-exploited
\* through the ID cross-reference, also when an exploited-catalog entry lacks
\* its cveID: /api/data does not flag it, and /api/stats counts in
\* cisa_kev_count only the exploited entries and the records whose non-empty
\* ID is in the cross-reference set, and rates it by its own score.
C20_EmptyIdNeverCrossReferenced ==
    pc = "done" =>
        /\ "" \notin cisa_kev_cve_ids
        /\ endpoint = "api_data" =>
              \A i \in 1..Len(ics_filtered) :
                  HasNoId(ics_filtered[i]) => ~formatted[i].is_cisa_kev
        /\ endpoint = "api_stats" =>
              stats.cisa_kev_count
                 = Cardinality({i \in 1..Len(ics_filtered) :
                                   \/ IsExploitedEntry(ics_filtered[i])
                                   \/ /\ get_cve_id(ics_filtered[i]) # ""
                                      /\ get_cve_id(ics_filtered[i]) \in UsedIds})

(***************************************************************************)
(* The fetch stage.                                                        *)
(***************************************************************************)
\* C13: fetch_recent_cves retries a bounded number of times: once begun, the
\* fetch of the general feed eventually returns to its caller, whatever the
\* upstream answers.
C13_NvdFetchEventuallyReturns ==
    (pc = "nvd_request") ~> (pc = "cisa_recent")

DateAddedOf(entry) == IF "dateAdded" \in DOMAIN entry THEN entry.dateAdded ELSE ""

\* neither YYYY-MM-DD nor the ISO format reads the entry's dateAdded
Undated(entry) ==
    \/ DateAddedOf(entry) = ""
    \/ /\ strptime_ymd(DateAddedOf(entry)) = NoDate
       /\ fromisoformat_date(DateAddedOf(entry)) = NoDate

\* the date of a dated entry: the first format if it reads, else the second
DateOf(entry) ==
    IF strptime_ymd(DateAddedOf(entry)) # NoDate
    THEN strptime_ymd(DateAddedOf(entry))
    ELSE fromisoformat_date(DateAddedOf(entry))

CutoffDate == strptime_ymd(today) - days

BothCatalogFetchesOk ==
    /\ pc \in {"format", "aggregate", "done"}
    /\ endpoint # "main"
    /\ outcome.recent = "ok" /\ outcome.full = "ok"

\* C14: get_recent_kevs reads dateAdded as YYYY-MM-DD and, failing that, as
\* ISO; an entry neither reads (or without dateAdded) is left out of the
\* windowed list, nothing is raised and the other entries are windowed by
\* their dates all the same; the entry stays in the full catalog and its ID in
\* the full cross-reference set.
C14_UndatedEntryOnlyLeavesWindow ==
    BothCatalogFetchesOk =>
        /\ IsSubsequence(cisa_kevs, kev_feed)
        /\ \A i \in 1..Len(kev_feed) :
              /\ Undated(kev_feed[i]) => ~Occurs(cisa_kevs, kev_feed[i])
              /\ ~Undated(kev_feed[i]) =>
                    (Occurs(cisa_kevs, kev_feed[i]) <=> DateOf(kev_feed[i]) >= CutoffDate)
              /\ all_cisa_kevs[i] = kev_feed[i]
              /\ get_cve_id(kev_feed[i]) # "" =>
                    get_cve_id(kev_feed[i]) \in cisa_kev_cve_ids
        /\ Len(all_cisa_kevs) = Len(kev_feed)

\* an entry with an unreadable date is out of the window and its ID in the
\* full set, next to an entry read by the ISO format only
C14_Witness ==
    /\ BothCatalogFetchesOk
    /\ Occurs(kev_feed, KevBadDate) /\ Undated(KevBadDate)
    /\ ~Occurs(cisa_kevs, KevBadDate)
    /\ "CVE-2024-0007" \in cisa_kev_cve_ids
    /\ strptime_ymd(KevIsoDate.dateAdded) = NoDate
    /\ Occurs(cisa_kevs, KevIsoDate)

(***************************************************************************)
(* The sorted views of /api/stats.                                         *)
(***************************************************************************)
\* the calendar day a timeline key stands for
DayOfKey(s) ==
    IF strptime_ymd(s) # NoDate THEN strptime_ymd(s) ELSE fromisoformat_date(s)

\* the vendor view: at most 10 entries of the histogram, each once, counts
\* non-increasing, no entry left out with a count above one taken in
VendorViewIsTopTen ==
    LET hist == stats.vendor_product_count
        labels == stats_view.vendor_labels
        counts == stats_view.vendor_counts
    IN /\ Len(labels) = Len(counts)
       /\ Len(labels) = (IF Len(hist) < 10 THEN Len(hist) ELSE 10)
       /\ \A i \in 1..Len(labels) : DictHas(hist, labels[i])
                                      /\ counts[i] = DictGet(hist, labels[i], 0)
       /\ \A i, j \in 1..Len(labels) : i < j => labels[i] # labels[j] /\ counts[i] >= counts[j]
       /\ \A k \in 1..Len(hist) :
             (\A i \in 1..Len(labels) : labels[i] # hist[k][1]) =>
                 \A i \in 1..Len(labels) : hist[k][2] <= counts[i]

\* C17: in the /api/stats result the timeline view lists every date of the
\* timeline once, with its count, in ascending order of the dates, and the
\* vendor view is the top 10 of the histogram by count.
C17_SortedViews ==
    pc = "done" /\ endpoint = "api_stats" =>
        LET dates == stats_view.timeline_dates
            counts == stats_view.timeline_counts
        IN /\ Len(dates) = Len(stats.timeline_data) /\ Len(counts) = Len(dates)
           /\ \A k \in 1..Len(stats.timeline_data) :
                 \E i \in 1..Len(dates) :
                     dates[i] = stats.timeline_data[k][1]
                        /\ counts[i] = stats.timeline_data[k][2]
           /\ \A i, j \in 1..Len(dates) : i < j => DayOfKey(dates[i]) < DayOfKey(dates[j])
           /\ VendorViewIsTopTen

(***************************************************************************)
(* aggregate_statistics called again and again, as successive requests of  *)
(* /api/stats do, on the same and on other arguments.                      *)
(***************************************************************************)
MaxCalls == 2

RepeatFiltered == SeqsUpTo({NvdMulti, KevScada}, 2)
RepeatKevs == { <<>>, << KevScada >> }

InitRepeat ==
    /\ StageInit("aggregate", "api_stats")
    /\ ics_filtered \in RepeatFiltered
    /\ cisa_kevs \in RepeatKevs
    /\ nvd_cves = <<>>
    /\ cisa_kev_cve_ids = {}

\* the next request: the call just made is remembered, the result object of
\* the previous request is still around
AggregateAgain ==
    /\ pc = "done"
    /\ Cardinality(stats_calls) < MaxCalls
    /\ stats_calls' = stats_calls \cup
          { [ ics_filtered |-> ics_filtered, nvd_cves |-> nvd_cves,
              cisa_kevs |-> cisa_kevs, stats |-> stats ] }
    /\ ics_filtered' \in RepeatFiltered
    /\ cisa_kevs' \in RepeatKevs
    /\ pc' = "aggregate"
    /\ UNCHANGED <<worldVars, endpoint, days, nvdVars, outcome, nvd_cves, all_cisa_kevs,
                   cisa_kev_cve_ids, outVars, filterVars, ratingVars, scoreVars>>

NextRepeat == AggregateCall \/ AggregateAgain

SpecRepeat == InitRepeat /\ [][NextRepeat]_vars

SameArguments(call) ==
    /\ call.ics_filtered = ics_filtered
    /\ call.nvd_cves = nvd_cves
    /\ call.cisa_kevs = cisa_kevs

NvdNullCve == [cve |-> EmptyObj, null_keys |-> {"cve"}]

\* "descriptions": null, a keyword among the CPE tokens, score 9.8
NvdNullDescriptions ==
    [cve |-> [ id |-> "CVE-2024-0009",
               descriptions |-> <<>>,
               configurations |-> << [nodes |-> <<
                   [cpeMatch |-> << [criteria |-> "cpe:2.3:h:siemens:s7-1200:*:*"] >>] >>] >>,
               metrics |-> [cvssMetricV31 |-> << Entry(980) >>],
               null_keys |-> {"descriptions"} ]]

\* "configurations": null, a keyword in the description, score 9.1
NvdNullConfigurations ==
    [cve |-> [ id |-> "CVE-2024-0010",
               descriptions |-> << [lang |-> "en", value |-> "Schneider Electric Modicon replay attack"] >>,
               configurations |-> <<>>,
               metrics |-> [cvssMetricV31 |-> << Entry(910) >>],
               null_keys |-> {"configurations"} ]]

\* "metrics": null, a keyword in the description
NvdNullMetrics ==
    [cve |-> [ id |-> "CVE-2024-0011",
               descriptions |-> << [lang |-> "en", value |-> "Modbus TCP flooding"] >>,
               metrics |-> EmptyObj,
               null_keys |-> {"metrics"} ]]

MalformedEntries ==
    {NvdNullCve, NvdNullDescriptions, NvdNullConfigurations, NvdNullMetrics}

InitMalformed ==
    /\ cve_list \in SeqsUpTo(MalformedEntries \cup {NvdSiemens, KevRockwell}, MaxLen)
    /\ keywords = ICS_KEYWORDS
    /\ min_severity \in {0, 700}
    /\ filtered = <<>>
    /\ filter_pc = "start"
    /\ RatingIdle /\ ScoreIdle /\ QueryIdle

SpecMalformed == InitMalformed /\ [][NextFilter]_vars

\* C12: filter_ics_vulnerabilities and the accessors it calls never raise: a
\* record with a null 'cve', 'descriptions', 'configurations' or 'metrics' is
\* read as having the empty description, no tokens and score 0, and the other
\* records of the list are filtered as they would be without it.
C12_MalformedRecordNeverAborts ==
    /\ filter_pc # "raised"
    /\ filter_pc = "done" =>
          \A i \in 1..Len(cve_list) :
              cve_list[i] \notin MalformedEntries =>
                  (Occurs(filtered, cve_list[i])
                      <=> filter_ics_vulnerabilities(<<cve_list[i]>>, keywords, min_severity)
                             = <<cve_list[i]>>)

(***************************************************************************)
(* The pagination loop of fetch_recent_cves seen from outside: the pages   *)
(* the upstream has for the query, and what the loop holds of them.        *)
(***************************************************************************)
\* the vulnerabilities of the first k pages, in request order
ConcatPages(pages, k) ==
    LET cat[i \in 0..k] == IF i = 0 THEN <<>> ELSE cat[i - 1] \o pages[i]
    IN cat[k]

InFetchLoop == pc \in {"nvd_request", "nvd_response"}

Retryable(resp) ==
    resp.kind = "http" /\ (resp.status_code = 429 \/ resp.status_code >= 500)

\* a response that carries a page with vulnerabilities in it
CarriesPage(resp) ==
    /\ resp.kind = "http" /\ resp.status_code = 200 /\ resp.body = "object"
    /\ "vulnerabilities" \in DOMAIN resp.data
    /\ Len(resp.data.vulnerabilities) > 0

TotalResultsOf(resp) ==
    IF "totalResults" \in DOMAIN resp.data THEN resp.data.totalResults ELSE 0

\* start_index counts the accepted pages and results is their concatenation
AcceptedPagesAccumulated ==
    InFetchLoop =>
        \E k \in 0..Len(nvd_world.pages) :
            /\ start_index = results_per_page * k
            /\ results = ConcatPages(nvd_world.pages, k)

\* a 429 or 5xx response re-requests the same start index and adds nothing
RetryAddsNothing ==
    [][ (pc = "nvd_response" /\ Retryable(response))
            => (pc' = "nvd_request" /\ start_index' = start_index
                    /\ results' = results) ]_vars

\* a page is appended once, at the end, and moves the start index on
PageAppendedOnce ==
    [][ (pc = "nvd_response" /\ CarriesPage(response))
            => /\ results' = results \o response.data.vulnerabilities
               /\ start_index' = start_index + results_per_page
               /\ pc' = IF start_index' >= TotalResultsOf(response)
                        THEN "cisa_recent" ELSE "nvd_request" ]_vars

\* anything else that is not retried ends the loop
OtherResponseStops ==
    [][ (pc = "nvd_response" /\ ~Retryable(response) /\ ~CarriesPage(response))
            => (pc' = "cisa_recent" /\ results' = results
                    /\ start_index' = start_index) ]_vars

\* whenever the loop ends, the caller receives what was accumulated
StopReturnsAccumulated ==
    [][ (pc = "nvd_response" /\ pc' = "cisa_recent") => nvd_cves' = results' ]_vars

\* C21: in fetch_recent_cves, whatever the upstream answers, start_index is
\* results_per_page times the number of pages accepted so far and results is
\* the concatenation, in request order, of the vulnerabilities of those pages:
\* a 429 or 5xx response re-requests the same start index and adds nothing, no
\* page is appended twice, and the loop stops at the first empty page or
\* non-retryable error, or once start_index >= totalResults, and returns what
\* was accumulated.
C21_PaginationAccumulatesAcceptedPages ==
    /\ []AcceptedPagesAccumulated
    /\ RetryAddsNothing
    /\ PageAppendedOnce
    /\ OtherResponseStops
    /\ StopReturnsAccumulated

====
